---- MODULE Spec2Model ----
(***************************************************************************)
(* Model of the Minesweeper knowledge engine (minesweeper.py): the         *)
(* Sentence class, the MinesweeperAI class and the part of the Minesweeper *)
(* board that reports neighbour-mine counts.                               *)
(***************************************************************************)
EXTENDS Integers, FiniteSets, Sequences, TLC

\* the board: MinesweeperAI(height, width), here with two rows
Height == 2

\* ---------------------------------------------------------------- bounds
Width == 3
MaxMines == 3
MaxCount == 1
MaxOps == 2

\* Python's None: a value that is no cell
None == <<>>

VARIABLES
    height,         \* MinesweeperAI.height (and Minesweeper.height)
    width,          \* MinesweeperAI.width (and Minesweeper.width)
    board,          \* Minesweeper.mines: the cells that hold a mine
    moves_made,     \* MinesweeperAI.moves_made
    mines,          \* MinesweeperAI.mines
    safes,          \* MinesweeperAI.safes
    knowledge,      \* MinesweeperAI.knowledge: sequence of sentences
    pc,             \* position inside add_knowledge ("idle" outside it)
    update_needed,  \* local of add_knowledge
    new_mines,      \* local of add_knowledge: mines still to iterate over
    new_safes,      \* local of add_knowledge: safes still to iterate over
    kb0,            \* history: knowledge when the while loop was entered
    numOps,         \* number of caller-issued engine calls so far
    last_call,      \* history: the last caller-issued engine call and the
                    \* knowledge it found
    sentence,       \* a stand-alone Sentence object
    returned,       \* value returned by the last query
    ttt_board,      \* tictactoe: the board of the game being played
    ttt_last,       \* tictactoe: the last result() call: its argument after
                    \* the call and whether it raised
    ttt_faithful    \* tictactoe: the sides that have played only actions that
                    \* minimax returned

tttVars == <<ttt_board, ttt_last, ttt_faithful>>

vars == <<tttVars, height, width, board,
          moves_made, mines, safes, knowledge, pc, update_needed,
          new_mines, new_safes, kb0, numOps, last_call, sentence, returned>>

\* a stand-alone Sentence object and the calls of its methods
aiVars == <<moves_made, mines, safes, knowledge, pc, update_needed,
            new_mines, new_safes, kb0, numOps, last_call>>

\* -------------------------------------------------------------- tictactoe
SIZE == 3

PlayerX == "X"
PlayerO == "O"
EMPTY == "EMPTY"

Squares == (0 .. SIZE - 1) \X (0 .. SIZE - 1)

\* a board gives the mark of every square: board[i][j] is b[<<i, j>>]
initial_state == [sq \in Squares |-> EMPTY]

player_ge(b) ==
    LET x_count == Cardinality({sq \in Squares : b[sq] = PlayerX})
        o_count == Cardinality({sq \in Squares : b[sq] = PlayerO})
    IN  IF x_count >= o_count THEN PlayerO ELSE PlayerX

player(b) ==
    LET x_count == Cardinality({sq \in Squares : b[sq] = PlayerX})
        o_count == Cardinality({sq \in Squares : b[sq] = PlayerO})
    IN  IF x_count > o_count THEN PlayerO ELSE PlayerX

actions(b) == {sq \in Squares : b[sq] = EMPTY}

\* result(board, action): whether it raises, the board it returns and the
\* argument board as the call leaves it (the move is made on a copy)
result(b, action) ==
    IF action \notin actions(b)
    THEN [raised |-> TRUE, returns |-> b, arg |-> b]
    ELSE IF b[action] # EMPTY
    THEN [raised |-> TRUE, returns |-> b, arg |-> b]
    ELSE [raised |-> FALSE, returns |-> [b EXCEPT ![action] = player(b)],
          arg |-> b]

isWinner(b, p) ==
    \/ \E row \in 0 .. SIZE - 1 : \A col \in 0 .. SIZE - 1 :
           b[<<row, col>>] = p
    \/ \E col \in 0 .. SIZE - 1 : \A row \in 0 .. SIZE - 1 :
           b[<<row, col>>] = p
    \/ \A i \in 0 .. SIZE - 1 : b[<<i, i>>] = p
    \/ \A i \in 0 .. SIZE - 1 : b[<<i, SIZE - 1 - i>>] = p

\* "None" when nobody has a line
winner(b) ==
    IF isWinner(b, PlayerX) THEN PlayerX
    ELSE IF isWinner(b, PlayerO) THEN PlayerO
    ELSE "None"

terminal(b) ==
    IF winner(b) # "None" THEN TRUE
    ELSE IF \E sq \in Squares : b[sq] = EMPTY THEN FALSE
    ELSE TRUE

utility(b) ==
    IF winner(b) = PlayerX THEN 1
    ELSE IF winner(b) = PlayerO THEN 0 - 1
    ELSE 0

\* the largest / smallest element: what `v = max(v, ...)` from -math.inf and
\* `v = min(v, ...)` from math.inf leave in v after a loop over a non-empty set
MaxOf(S) == CHOOSE v \in S : \A w \in S : w <= v
MinOf(S) == CHOOSE v \in S : \A w \in S : v <= w

RECURSIVE maxVal(_), minVal(_)
maxVal(b) ==
    IF terminal(b)
    THEN utility(b)
    ELSE MaxOf({minVal(result(b, action).returns) : action \in actions(b)})

minVal(b) ==
    IF terminal(b)
    THEN utility(b)
    ELSE MinOf({maxVal(result(b, action).returns) : action \in actions(b)})

minimax_any(b) == IF terminal(b) THEN {None} ELSE actions(b)

\* the actions minimax can return: the first action, in the iteration order
\* of the set actions(board), whose value is the best one; None on a terminal
\* board
minimax(b) ==
    IF terminal(b)
    THEN {None}
    ELSE IF player(b) = PlayerX
    THEN LET scored == {<<action, minVal(result(b, action).returns)>> :
                          action \in actions(b)}
             best_value == MaxOf({v[2] : v \in scored})
         IN  {v[1] : v \in {w \in scored : w[2] = best_value}}
    ELSE LET scored == {<<action, maxVal(result(b, action).returns)>> :
                          action \in actions(b)}
             best_value == MinOf({v[2] : v \in scored})
         IN  {v[1] : v \in {w \in scored : w[2] = best_value}}

\* ------------------------------------------------------------ Minesweeper
Cells == (0 .. height - 1) \X (0 .. width - 1)

\* the double loop over range(x-1, x+2), range(y-1, y+2), skipping the cell
\* itself and clipping to the grid
NearbyCells(cell) ==
    {n \in Cells : /\ n # cell
                   /\ n[1] \in (cell[1] - 1) .. (cell[1] + 1)
                   /\ n[2] \in (cell[2] - 1) .. (cell[2] + 1)}

nearby_mines(cell) == Cardinality({n \in NearbyCells(cell) : n \in board})

is_mine(cell) == cell \in board

\* --------------------------------------------------------------- Sentence
Sentence(cells, count) == [cells |-> cells, count |-> count]

SentenceEq(a, b) == a.cells = b.cells /\ a.count = b.count

\* variant: the length test is left out
known_mines_nolen(s) == IF s.count > 0 THEN s.cells ELSE {}

known_mines(s) ==
    IF Cardinality(s.cells) = s.count /\ s.count > 0 THEN s.cells ELSE {}

\* variant: a sentence with a single cell is never taken for all-safe
known_safes_gt1(s) ==
    IF s.count = 0 /\ Cardinality(s.cells) > 1 THEN s.cells ELSE {}

\* variant: a sentence with one mine left is taken for an all-safe one
known_safes_le1(s) ==
    IF s.count <= 1 /\ Cardinality(s.cells) > 0 THEN s.cells ELSE {}

known_safes(s) ==
    IF s.count = 0 /\ Cardinality(s.cells) > 0 THEN s.cells ELSE {}

\* variant: the count is not decremented
SentenceMarkMine_nodec(s, cell) ==
    IF cell \in s.cells
    THEN [cells |-> s.cells \ {cell}, count |-> s.count]
    ELSE s

SentenceMarkMine(s, cell) ==
    IF cell \in s.cells
    THEN [cells |-> s.cells \ {cell}, count |-> s.count - 1]
    ELSE s

\* variant: removing a safe cell also lowers the count
SentenceMarkSafe_dec(s, cell) ==
    IF cell \in s.cells
    THEN [cells |-> s.cells \ {cell}, count |-> s.count - 1]
    ELSE s

SentenceMarkSafe(s, cell) ==
    IF cell \in s.cells
    THEN [cells |-> s.cells \ {cell}, count |-> s.count]
    ELSE s

\* ---------------------------------------------------------- MinesweeperAI
\* `sentence in list`: list membership through Sentence.__eq__
InKnowledge(s, kb) == \E i \in DOMAIN kb : SentenceEq(kb[i], s)

\* variant: the sentences are not told about the mine
PropagateMine_none(kb, cell) == kb

\* for sentence in self.knowledge: sentence.mark_mine(cell)
PropagateMine(kb, cell) == [i \in DOMAIN kb |-> SentenceMarkMine(kb[i], cell)]

\* for sentence in self.knowledge: sentence.mark_safe(cell)
PropagateSafe(kb, cell) == [i \in DOMAIN kb |-> SentenceMarkSafe(kb[i], cell)]

\* variant: neighbours known to be mines stay in the new sentence
Undetermined_keepmines(cell, mm, sf, mn) ==
    {n \in NearbyCells(cell) : n \notin mm /\ n \notin sf}

\* the neighbours kept for the new sentence (mm, sf, mn: the three sets
\* after the probed cell was recorded)
Undetermined(cell, mm, sf, mn) ==
    {n \in NearbyCells(cell) : n \notin mm /\ n \notin sf /\ n \notin mn}

\* variant: neighbours already known to be mines are not subtracted
AdjustedCount_noadjust(cell, count, mm, sf, mn) == count

\* count after the `elif neighbor_cell in self.mines: count -= 1` branch
AdjustedCount(cell, count, mm, sf, mn) ==
    count - Cardinality({n \in NearbyCells(cell) :
                            /\ ~(n \notin mm /\ n \notin sf /\ n \notin mn)
                            /\ n \in mn})

\* variant: the new sentence is appended without looking for an equal one
WithNewSentence_nodedup(kb, ns) ==
    IF Cardinality(ns.cells) > 0 THEN Append(kb, ns) ELSE kb

\* knowledge after `if len(neighbors) > 0: ... append`
WithNewSentence(kb, ns) ==
    IF Cardinality(ns.cells) > 0 /\ ~InKnowledge(ns, kb)
    THEN Append(kb, ns)
    ELSE kb

\* one sentence through the removal loop of the while body
ReduceSentence(s, sf, mn) ==
    [cells |-> {c \in s.cells : c \notin sf /\ c \notin mn},
     count |-> s.count - Cardinality({c \in s.cells : c \notin sf /\ c \in mn})]

\* new_knowledge_base: the reduced sentences that still have cells
Prune(kb, sf, mn) ==
    SelectSeq([i \in DOMAIN kb |-> ReduceSentence(kb[i], sf, mn)],
              LAMBDA s : Cardinality(s.cells) > 0)

\* variant: the length test also fires when nothing was pruned
PrunedAny_le(kb, nkb) == Len(nkb) <= Len(kb)

\* `if len(new_knowledge_base) < len(self.knowledge)`
PrunedAny(kb, nkb) == Len(nkb) < Len(kb)

\* variant: only equal cell sets are skipped, a derived sentence is never
\* compared with the range of its count
Inferable_norange(s1, s2, kb, inf) ==
    /\ ~SentenceEq(s1, s2)
    /\ s1.cells \subseteq s2.cells
    /\ s1.cells # s2.cells
    /\ s2.count - s1.count > 0
    /\ ~InKnowledge(Sentence(s2.cells \ s1.cells, s2.count - s1.count), kb)
    /\ ~InKnowledge(Sentence(s2.cells \ s1.cells, s2.count - s1.count), inf)

\* the test that guards new_inferences.append
Inferable(s1, s2, kb, inf) ==
    /\ ~SentenceEq(s1, s2)
    /\ s1.cells \subseteq s2.cells
    /\ s1.cells # s2.cells
    /\ Cardinality(s2.cells \ s1.cells) > 0
    /\ s2.count - s1.count >= 0
    /\ s2.count - s1.count <= Cardinality(s2.cells \ s1.cells)
    /\ ~InKnowledge(Sentence(s2.cells \ s1.cells, s2.count - s1.count), kb)
    /\ ~InKnowledge(Sentence(s2.cells \ s1.cells, s2.count - s1.count), inf)

\* the nested loops `for s1 in knowledge: for s2 in knowledge`, pair number k
RECURSIVE InferFrom(_, _, _)
InferFrom(kb, k, inf) ==
    IF k > Len(kb) * Len(kb)
    THEN inf
    ELSE LET s1 == kb[((k - 1) \div Len(kb)) + 1]
             s2 == kb[((k - 1) % Len(kb)) + 1]
         IN  InferFrom(kb, k + 1,
                 IF Inferable(s1, s2, kb, inf)
                 THEN Append(inf, Sentence(s2.cells \ s1.cells,
                                           s2.count - s1.count))
                 ELSE inf)

new_inferences(kb) == InferFrom(kb, 1, <<>>)

\* where the while body goes after new_mines / new_safes shrink
AfterCollect(nm, ns) ==
    IF nm # {} THEN "mark_mines" ELSE IF ns # {} THEN "mark_safes" ELSE "reduce"

\* ------------------------------------------ add_knowledge as one function
\* the engine's fields as one value
AIState(mm, mn, sf, kb) ==
    [moves_made |-> mm, mines |-> mn, safes |-> sf, knowledge |-> kb]

\* mark_mine for every cell of a set; the calls commute, so the iteration
\* order of the set does not show in the result
RECURSIVE MarkMines(_, _)
MarkMines(kb, cells) ==
    IF cells = {}
    THEN kb
    ELSE LET c == CHOOSE x \in cells : TRUE
         IN  MarkMines(PropagateMine(kb, c), cells \ {c})

\* mark_safe for every cell of a set
RECURSIVE MarkSafes(_, _)
MarkSafes(kb, cells) ==
    IF cells = {}
    THEN kb
    ELSE LET c == CHOOSE x \in cells : TRUE
         IN  MarkSafes(PropagateSafe(kb, c), cells \ {c})

\* add_knowledge up to the entry of the while loop
EnterLoop(st, cell, count) ==
    LET mm == st.moves_made \cup {cell}
        sf == st.safes \cup {cell}
    IN  AIState(mm, st.mines, sf,
            WithNewSentence(PropagateSafe(st.knowledge, cell),
                Sentence(Undetermined(cell, mm, sf, st.mines),
                         AdjustedCount(cell, count, mm, sf, st.mines))))

\* one execution of the while body: the state after it and update_needed
WhilePass(st) ==
    LET kb == st.knowledge
        nm == UNION {known_mines(kb[i]) : i \in DOMAIN kb} \ st.mines
        ns == UNION {known_safes(kb[i]) : i \in DOMAIN kb} \ st.safes
        marked == MarkSafes(MarkMines(kb, nm), ns)
        mn == st.mines \cup nm
        sf == st.safes \cup ns
        nkb == Prune(marked, sf, mn)
        inf == new_inferences(nkb)
    IN  [st |-> AIState(st.moves_made, mn, sf, nkb \o inf),
         update_needed |-> (nm # {} \/ ns # {} \/ PrunedAny(marked, nkb)
                                \/ Len(inf) > 0)]

\* while update_needed: ...
RECURSIVE WhileLoop(_)
WhileLoop(st) ==
    LET p == WhilePass(st)
    IN  IF p.update_needed THEN WhileLoop(p.st) ELSE p.st

\* the engine after add_knowledge(cell, count) has returned
AddKnowledgeResult(st, cell, count) == WhileLoop(EnterLoop(st, cell, count))

\* the engine's fields now
Engine == AIState(moves_made, mines, safes, knowledge)

\* variant: the moves already made are not left out
make_safe_move_any == IF safes = {} THEN {None} ELSE safes

\* the values make_safe_move can return: the first cell of self.safes, in
\* set iteration order, that is not in self.moves_made
make_safe_move ==
    IF safes \ moves_made = {} THEN {None} ELSE safes \ moves_made

\* variant: the known mines are not left out
make_random_move_nomines ==
    LET available_moves == {cell \in Cells : cell \notin moves_made}
    IN  IF available_moves # {} THEN available_moves ELSE {None}

\* the values make_random_move can return: random.choice over the cells
\* that are neither moves made nor known mines
make_random_move ==
    LET available_moves ==
            {cell \in Cells : cell \notin moves_made /\ cell \notin mines}
    IN  IF available_moves # {} THEN available_moves ELSE {None}

\* ---------------------------------------------------------------- actions
\* MinesweeperAI.mark_mine called by the user of the engine
mark_mine(cell) ==
    /\ pc = "idle"
    /\ numOps < MaxOps
    /\ numOps' = numOps + 1
    /\ mines' = mines \cup {cell}
    /\ knowledge' = PropagateMine(knowledge, cell)
    /\ last_call' = [op |-> "mark_mine", cell |-> cell, before |-> knowledge]
    /\ UNCHANGED <<tttVars, height, width, board,
                   moves_made, safes, pc, update_needed, new_mines,
                   new_safes, kb0, sentence, returned>>

\* variant: marking a cell safe withdraws it from the known mines
mark_safe_unmine(cell) ==
    /\ pc = "idle"
    /\ numOps < MaxOps
    /\ numOps' = numOps + 1
    /\ safes' = safes \cup {cell}
    /\ mines' = mines \ {cell}
    /\ knowledge' = PropagateSafe(knowledge, cell)
    /\ last_call' = [op |-> "mark_safe", cell |-> cell, before |-> knowledge]
    /\ UNCHANGED <<tttVars, height, width, board,
                   moves_made, pc, update_needed, new_mines,
                   new_safes, kb0, sentence, returned>>

\* MinesweeperAI.mark_safe called by the user of the engine
mark_safe(cell) ==
    /\ pc = "idle"
    /\ numOps < MaxOps
    /\ numOps' = numOps + 1
    /\ safes' = safes \cup {cell}
    /\ knowledge' = PropagateSafe(knowledge, cell)
    /\ last_call' = [op |-> "mark_safe", cell |-> cell, before |-> knowledge]
    /\ UNCHANGED <<tttVars, height, width, board,
                   moves_made, mines, pc, update_needed, new_mines,
                   new_safes, kb0, sentence, returned>>

\* add_knowledge up to the entry of the while loop
AddKnowledgeEnter(cell, count) ==
    /\ pc = "idle"
    /\ moves_made' = moves_made \cup {cell}
    /\ safes' = safes \cup {cell}
    /\ knowledge' =
          WithNewSentence(PropagateSafe(knowledge, cell),
              Sentence(Undetermined(cell, moves_made', safes', mines),
                       AdjustedCount(cell, count, moves_made', safes', mines)))
    /\ kb0' = knowledge'
    /\ last_call' = [op |-> "add_knowledge", cell |-> cell, before |-> knowledge]
    /\ update_needed' = TRUE
    /\ pc' = "collect"
    /\ UNCHANGED <<tttVars, height, width, board,
                   mines, new_mines, new_safes, sentence, returned>>

\* top of the while body: the loop over the sentences that fills
\* new_mines and new_safes
Collect ==
    /\ pc = "collect"
    /\ update_needed' = FALSE
    /\ new_mines' = UNION {known_mines(knowledge[i]) : i \in DOMAIN knowledge}
    /\ new_safes' = UNION {known_safes(knowledge[i]) : i \in DOMAIN knowledge}
    /\ pc' = AfterCollect(new_mines', new_safes')
    /\ UNCHANGED <<tttVars, height, width, board,
                   moves_made, mines, safes, knowledge, kb0, numOps,
                   last_call, sentence, returned>>

\* one iteration of `for mine in new_mines` (set order is arbitrary)
MarkNewMine ==
    /\ pc = "mark_mines"
    /\ \E mine \in new_mines :
          /\ new_mines' = new_mines \ {mine}
          /\ IF mine \notin mines
             THEN /\ mines' = mines \cup {mine}
                  /\ knowledge' = PropagateMine(knowledge, mine)
                  /\ update_needed' = TRUE
             ELSE UNCHANGED <<mines, knowledge, update_needed>>
          /\ pc' = AfterCollect(new_mines', new_safes)
    /\ UNCHANGED <<tttVars, height, width, board,
                   moves_made, safes, new_safes, kb0, numOps,
                   last_call, sentence, returned>>

\* one iteration of `for safe in new_safes`
MarkNewSafe ==
    /\ pc = "mark_safes"
    /\ \E safe \in new_safes :
          /\ new_safes' = new_safes \ {safe}
          /\ IF safe \notin safes
             THEN /\ safes' = safes \cup {safe}
                  /\ knowledge' = PropagateSafe(knowledge, safe)
                  /\ update_needed' = TRUE
             ELSE UNCHANGED <<safes, knowledge, update_needed>>
          /\ pc' = AfterCollect({}, new_safes')
    /\ UNCHANGED <<tttVars, height, width, board,
                   moves_made, mines, new_mines, kb0, numOps,
                   last_call, sentence, returned>>

\* rest of the while body: reduction, pruning, subset inference, loop test
ReduceAndInfer ==
    /\ pc = "reduce"
    /\ LET nkb == Prune(knowledge, safes, mines)
           inf == new_inferences(nkb)
       IN  /\ knowledge' = nkb \o inf
           /\ update_needed' =
                 (update_needed \/ PrunedAny(knowledge, nkb) \/ Len(inf) > 0)
    /\ pc' = IF update_needed' THEN "collect" ELSE "idle"
    /\ UNCHANGED <<tttVars, height, width, board,
                   moves_made, mines, safes, new_mines, new_safes, kb0,
                   numOps, last_call, sentence, returned>>

WhileBody == Collect \/ MarkNewMine \/ MarkNewSafe \/ ReduceAndInfer

\* the game loop: a cell that is not a mine is probed and the board's
\* nearby_mines count is handed to add_knowledge
Probe ==
    \E cell \in Cells :
        /\ ~is_mine(cell)
        /\ AddKnowledgeEnter(cell, nearby_mines(cell))
        /\ UNCHANGED numOps

\* add_knowledge called with any cell and any reported count
add_knowledge ==
    \E cell \in Cells, count \in 0 .. MaxCount :
        /\ numOps < MaxOps
        /\ numOps' = numOps + 1
        /\ AddKnowledgeEnter(cell, count)

MarkMineCall == \E cell \in Cells : mark_mine(cell)

MarkSafeCall == \E cell \in Cells : mark_safe(cell)

\* a whole add_knowledge call as one step (the history variables are not
\* kept by this step)
AddKnowledgeCall(cell, count) ==
    /\ pc = "idle"
    /\ LET r == AddKnowledgeResult(Engine, cell, count)
       IN  /\ moves_made' = r.moves_made
           /\ mines' = r.mines
           /\ safes' = r.safes
           /\ knowledge' = r.knowledge
    /\ UNCHANGED <<tttVars, height, width, board, pc, update_needed, new_mines,
                   new_safes, kb0, numOps, last_call, sentence, returned>>

\* the game loop with each probe as one step; the moves it plays come from
\* make_safe_move and make_random_move, which leave out the moves made
ProbeCall ==
    \E cell \in Cells \ moves_made :
        /\ ~is_mine(cell)
        /\ AddKnowledgeCall(cell, nearby_mines(cell))

\* a call of make_safe_move between two add_knowledge calls
MakeSafeMoveCall ==
    /\ pc = "idle"
    /\ \E move \in make_safe_move :
          returned' = [op |-> "make_safe_move", value |-> move]
    /\ UNCHANGED <<tttVars, height, width, board,
                   moves_made, mines, safes, knowledge,
                   pc, update_needed, new_mines, new_safes, kb0, numOps,
                   last_call, sentence>>

\* a call of make_random_move between two add_knowledge calls
MakeRandomMoveCall ==
    /\ pc = "idle"
    /\ \E move \in make_random_move :
          returned' = [op |-> "make_random_move", value |-> move]
    /\ UNCHANGED <<tttVars, height, width, board,
                   moves_made, mines, safes, knowledge,
                   pc, update_needed, new_mines, new_safes, kb0, numOps,
                   last_call, sentence>>

\* the effect of a call result(ttt_board, action) on the game
ResultEffect(action) ==
    LET r == result(ttt_board, action)
    IN  /\ ttt_board' = (IF r.raised THEN ttt_board ELSE r.returns)
        /\ ttt_last' = [action |-> action, arg |-> r.arg, raised |-> r.raised]

\* any call of result, with an action of the board or not, on any board the
\* calls before have returned
ResultCall ==
    /\ \E action \in (0 .. SIZE) \X (0 .. SIZE) : ResultEffect(action)
    /\ UNCHANGED <<ttt_faithful, height, width, board, aiVars, sentence,
                   returned>>

\* a call minimax(ttt_board); returned.value is the set of the actions the
\* call can return
MinimaxCall ==
    /\ returned.op # "minimax"
    /\ returned' = [op |-> "minimax", value |-> minimax(ttt_board)]
    /\ UNCHANGED <<tttVars, height, width, board, aiVars, sentence>>

\* the side to move plays a legal move of a game that is not over; a side
\* stays in ttt_faithful as long as it plays what minimax returned
Play ==
    /\ returned.op = "minimax"
    /\ ~terminal(ttt_board)
    /\ \E action \in actions(ttt_board) :
           /\ ttt_board' = result(ttt_board, action).returns
           /\ ttt_faithful' = (IF action \in returned.value
                               THEN ttt_faithful
                               ELSE ttt_faithful \ {player(ttt_board)})
    /\ returned' = [op |-> "none", value |-> {}]
    /\ UNCHANGED <<ttt_last, height, width, board, aiVars, sentence>>

\* ------------------------------------------------------------------ specs
\* minesweeper runs without tictactoe: there is no board of a game
NoTTT ==
    /\ ttt_board = None
    /\ ttt_last = None
    /\ ttt_faithful = {}

\* tictactoe starts from initial_state()
InitTTT ==
    /\ ttt_board = initial_state
    /\ ttt_last = [action |-> None, arg |-> initial_state, raised |-> FALSE]
    /\ ttt_faithful = {PlayerX, PlayerO}

InitAI ==
    /\ moves_made = {}
    /\ mines = {}
    /\ safes = {}
    /\ knowledge = <<>>
    /\ pc = "idle"
    /\ update_needed = FALSE
    /\ new_mines = {}
    /\ new_safes = {}
    /\ kb0 = <<>>
    /\ numOps = 0
    /\ last_call = [op |-> "none", cell |-> None, before |-> <<>>]

Init ==
    /\ NoTTT
    /\ height = Height
    /\ width = Width
    /\ board \in {b \in SUBSET Cells : Cardinality(b) <= MaxMines}
    /\ InitAI
    /\ sentence = Sentence({}, 0)
    /\ returned = [op |-> "none", value |-> None]

Next == Probe \/ WhileBody

Spec == Init /\ [][Next]_vars

\* the engine driven by arbitrary calls
InitAPI ==
    /\ NoTTT
    /\ height = Height
    /\ width = Width
    /\ board = {}
    /\ InitAI
    /\ sentence = Sentence({}, 0)
    /\ returned = [op |-> "none", value |-> None]

NextAPI == MarkMineCall \/ MarkSafeCall \/ add_knowledge \/ WhileBody

SpecAPI == InitAPI /\ [][NextAPI]_vars

\* add_knowledge runs synchronously, so the while body keeps being executed
LiveSpecAPI == SpecAPI /\ WF_vars(WhileBody)

\* the 4x4 board with its single mine in the corner (3, 3)
InitCorner ==
    /\ NoTTT
    /\ height = 4
    /\ width = 4
    /\ board = {<<3, 3>>}
    /\ InitAI
    /\ sentence = Sentence({}, 0)
    /\ returned = [op |-> "none", value |-> None]

SpecCorner == InitCorner /\ [][ProbeCall]_vars

\* games of probes in every order, each cell probed once
SpecOrder == Init /\ [][ProbeCall]_vars

\* a probe of a game in which the engine has not been asked for a move yet:
\* a query changes no field of the engine, so the engine states of the games
\* with queries in between are those of the games without
ProbeThenAsk ==
    /\ returned.op = "none"
    /\ ProbeCall

\* the game loop, and the two move queries at any point of it
NextMoves == ProbeThenAsk \/ MakeSafeMoveCall \/ MakeRandomMoveCall

SpecMoves == Init /\ [][NextMoves]_vars

KnownMinesCall ==
    /\ returned' = [op |-> "known_mines", value |-> known_mines(sentence)]
    /\ UNCHANGED <<tttVars, height, width, board, aiVars, sentence>>

KnownSafesCall ==
    /\ returned' = [op |-> "known_safes", value |-> known_safes(sentence)]
    /\ UNCHANGED <<tttVars, height, width, board, aiVars, sentence>>

SentenceMarkMineCall ==
    \E cell \in Cells :
        /\ sentence' = SentenceMarkMine(sentence, cell)
        /\ returned' = [op |-> "mark_mine", value |-> None]
        /\ UNCHANGED <<tttVars, height, width, board, aiVars>>

SentenceMarkSafeCall ==
    \E cell \in Cells :
        /\ sentence' = SentenceMarkSafe(sentence, cell)
        /\ returned' = [op |-> "mark_safe", value |-> None]
        /\ UNCHANGED <<tttVars, height, width, board, aiVars>>

InitSentence ==
    /\ NoTTT
    /\ height = Height
    /\ width = Width
    /\ board = {}
    /\ InitAI
    /\ sentence \in [cells : SUBSET Cells,
                     count : (0 - 1) .. (Cardinality(Cells) + 1)]
    /\ returned = [op |-> "none", value |-> None]

NextSentence ==
    KnownMinesCall \/ KnownSafesCall \/ SentenceMarkMineCall
        \/ SentenceMarkSafeCall

SpecSentence == InitSentence /\ [][NextSentence]_vars

\* tictactoe: the boards that calls of result lead to
InitResult ==
    /\ InitTTT
    /\ height = Height
    /\ width = Width
    /\ board = {}
    /\ InitAI
    /\ sentence = Sentence({}, 0)
    /\ returned = [op |-> "none", value |-> {}]

SpecResult == InitResult /\ [][ResultCall]_vars

\* tictactoe: games of legal moves, minimax called before every move
NextGame == MinimaxCall \/ Play

SpecGame == InitResult /\ [][NextGame]_vars

\* ----------------------------------------------------------------- claims
\* C1: under true observations of non-mine cells every cell of `mines` is a
\* mine of the board, no cell of `safes` is a mine, and make_safe_move never
\* returns a mined cell.
C1_Sound ==
    /\ \A c \in mines : is_mine(c)
    /\ \A c \in safes : ~is_mine(c)
    /\ \A c \in make_safe_move : c # None => ~is_mine(c)

C1_Witness ==
    /\ pc = "idle"
    /\ mines # {}
    /\ safes \ moves_made # {}

\* C2: under true observations every sentence in the knowledge satisfies
\* 0 <= count <= |cells| in every state, also between two marks.
C2_CountInRange ==
    \A i \in DOMAIN knowledge :
        /\ 0 <= knowledge[i].count
        /\ knowledge[i].count <= Cardinality(knowledge[i].cells)

\* a sentence of the loop entry has lost a mine and still has cells
C2_Witness ==
    \E i \in DOMAIN knowledge \cap DOMAIN kb0 :
        /\ pc = "mark_mines"
        /\ knowledge[i].cells # {}
        /\ knowledge[i].cells # kb0[i].cells
        /\ knowledge[i].cells \subseteq kb0[i].cells
        /\ knowledge[i].count = kb0[i].count - 1

\* C3: no cell of `safes` or `mines` occurs in a sentence of the
\* knowledge, whatever calls were made.
C3_NoClassifiedCell ==
    \A i \in DOMAIN knowledge :
        knowledge[i].cells \cap (safes \cup mines) = {}

\* the caller marked a cell that a sentence contained
C3_Witness ==
    /\ pc = "idle"
    /\ last_call.op \in {"mark_mine", "mark_safe"}
    /\ \E i \in DOMAIN last_call.before :
          last_call.cell \in last_call.before[i].cells

\* C4: moves_made, safes and mines only grow.
C4_Monotone ==
    [][/\ moves_made \subseteq moves_made'
       /\ safes \subseteq safes'
       /\ mines \subseteq mines']_vars

\* a known mine was marked safe by the caller and is still a known mine
C4_Witness ==
    /\ last_call.op = "mark_safe"
    /\ last_call.cell \in mines
    /\ last_call.cell \in safes

\* C5: under true observations safes and mines are disjoint.
C5_Disjoint == safes \cap mines = {}

C5_Witness ==
    /\ pc = "idle"
    /\ mines # {}
    /\ Cardinality(moves_made) >= 2
    /\ safes # moves_made

\* C6: every call of add_knowledge returns, whatever the knowledge it
\* starts from and whatever count is reported.
C6_Terminates == (pc # "idle") ~> (pc = "idle")

\* a call that needed subset inference has returned
C6_Witness ==
    /\ pc = "idle"
    /\ last_call.op = "add_knowledge"
    /\ Len(kb0) >= 2
    /\ mines # {}
    /\ safes # moves_made

\* C7: if the knowledge at the entry of the while loop holds sentences A and
\* B with A.cells a strict subset of B.cells, then on return the cells of
\* B.cells - A.cells are all safe when the counts are equal and all mines
\* when the count difference is the number of those cells.
C7_SubsetInference ==
    pc = "idle" =>
        \A i, j \in DOMAIN kb0 :
            (kb0[i].cells \subseteq kb0[j].cells /\ kb0[i].cells # kb0[j].cells)
            => /\ kb0[j].count - kb0[i].count = 0
                    => kb0[j].cells \ kb0[i].cells \subseteq safes
               /\ kb0[j].count - kb0[i].count
                        = Cardinality(kb0[j].cells \ kb0[i].cells)
                    => kb0[j].cells \ kb0[i].cells \subseteq mines

\* the loop was entered with {..}=k inside {..,C}=k, neither of them
\* decided on its own, and has returned
C7_Witness ==
    /\ pc = "idle"
    /\ \E i, j \in DOMAIN kb0 :
          /\ kb0[i].cells \subseteq kb0[j].cells
          /\ kb0[i].cells # kb0[j].cells
          /\ kb0[j].count = kb0[i].count
          /\ kb0[i].count > 0
          /\ kb0[i].count < Cardinality(kb0[i].cells)

\* C8: the engine's mark_mine(X) removes X from every sentence that holds
\* it and lowers that sentence's count by one, mark_safe(X) removes X and
\* keeps the count; sentences without X stay as they are and the only other
\* change is X joining mines (resp. safes).
MarkEffect(X, dec) ==
    /\ Len(knowledge') = Len(knowledge)
    /\ \A i \in DOMAIN knowledge :
          IF X \in knowledge[i].cells
          THEN /\ knowledge'[i].cells = knowledge[i].cells \ {X}
               /\ knowledge'[i].count = knowledge[i].count - dec
          ELSE knowledge'[i] = knowledge[i]
    /\ moves_made' = moves_made

\* both for the calls issued by the user of the engine and for the calls
\* add_knowledge makes in its extraction loops
C8_MarkFrame ==
    [][\A X \in Cells :
          /\ (mark_mine(X) \/ (MarkNewMine /\ X \in mines' \ mines)) =>
                MarkEffect(X, 1) /\ mines' = mines \cup {X} /\ safes' = safes
          /\ (mark_safe(X) \/ (MarkNewSafe /\ X \in safes' \ safes)) =>
                MarkEffect(X, 0) /\ safes' = safes \cup {X} /\ mines' = mines
      ]_vars

\* one cell has been marked since the loop entry; it was held by one
\* sentence, now without it (and one lower for a mine), and not by another,
\* which is as it was
C8_Witness ==
    /\ pc \in {"mark_mines", "mark_safes", "reduce"}
    /\ Len(knowledge) = Len(kb0)
    /\ \E X \in (mines \cup safes) \ moves_made : \E i, j \in DOMAIN kb0 :
          /\ X \in kb0[i].cells
          /\ X \notin kb0[j].cells
          /\ knowledge[i] = [cells |-> kb0[i].cells \ {X},
                              count |-> kb0[i].count
                                          - (IF X \in mines THEN 1 ELSE 0)]
          /\ knowledge[j] = kb0[j]

\* C9: known_mines returns the cells when count > 0 and count = |cells| and
\* the empty set otherwise, known_safes returns the cells when count = 0 and
\* |cells| > 0 and the empty set otherwise; neither changes the sentence.
C9_Queries ==
    [][/\ (returned'.op = "known_mines" /\ KnownMinesCall) =>
            /\ returned'.value =
                  IF sentence.count > 0
                        /\ sentence.count = Cardinality(sentence.cells)
                  THEN sentence.cells ELSE {}
            /\ sentence' = sentence
       /\ (returned'.op = "known_safes" /\ KnownSafesCall) =>
            /\ returned'.value =
                  IF sentence.count = 0 /\ Cardinality(sentence.cells) > 0
                  THEN sentence.cells ELSE {}
            /\ sentence' = sentence
      ]_vars

C9_Witness ==
    /\ returned.op = "known_mines"
    /\ returned.value = sentence.cells
    /\ Cardinality(sentence.cells) = 2
    /\ sentence.count = 2

\* C10: add_knowledge(cell, count) puts the cell in moves_made and safes,
\* builds the sentence over the in-bounds neighbours that are in none of
\* moves_made, safes, mines with the count lowered by the neighbours already
\* in mines, and appends it before the loop iff it has cells and no equal
\* sentence is in the knowledge.
C10_Around(cell) ==
    {n \in Cells : /\ n # cell
                   /\ n[1] - cell[1] \in {0 - 1, 0, 1}
                   /\ n[2] - cell[2] \in {0 - 1, 0, 1}}

C10_Built(cell, count) ==
    [cells |-> C10_Around(cell) \ (moves_made' \cup safes' \cup mines'),
     count |-> count - Cardinality(C10_Around(cell) \cap mines)]

C10_NewSentence ==
    [][\A cell \in Cells, count \in 0 .. MaxCount :
          AddKnowledgeEnter(cell, count) =>
              /\ moves_made' = moves_made \cup {cell}
              /\ safes' = safes \cup {cell}
              /\ mines' = mines
              /\ LET old == [i \in DOMAIN knowledge |->
                               [cells |-> knowledge[i].cells \ {cell},
                                count |-> knowledge[i].count]]
                     new == C10_Built(cell, count)
                 IN  IF new.cells # {} /\ \A i \in DOMAIN old : old[i] # new
                     THEN knowledge' = Append(old, new)
                     ELSE knowledge' = old
              /\ pc' = "collect"
      ]_vars

\* a new sentence was appended for a cell with a known mine next to it
C10_Witness ==
    /\ pc = "collect"
    /\ last_call.op = "add_knowledge"
    /\ Len(knowledge) = Len(last_call.before) + 1
    /\ NearbyCells(last_call.cell) \cap mines # {}

\* C11: on the 4x4 board with one mine at (3, 3), whatever the order of the
\* probes, (3, 3) is never in safes and never a result of make_safe_move, and
\* it is in mines once the 15 other cells have been probed.
C11_Corner ==
    /\ <<3, 3>> \notin safes
    /\ <<3, 3>> \notin make_safe_move
    /\ (Cells \ {<<3, 3>>}) \subseteq moves_made => <<3, 3>> \in mines

C11_Witness ==
    /\ height = 4 /\ width = 4
    /\ moves_made = Cells \ {<<3, 3>>}
    /\ mines = {<<3, 3>>}

\* C12: when add_knowledge was called for a cell with no mined neighbour (and
\* so with count 0), every in-bounds neighbour of the cell is in safes when
\* the call returns.
C12_ZeroCount ==
    (pc = "idle" /\ last_call.op = "add_knowledge"
        /\ nearby_mines(last_call.cell) = 0)
    => NearbyCells(last_call.cell) \subseteq safes

\* the first probe of a game, on a board with mines, reported 0
C12_Witness ==
    /\ pc = "idle"
    /\ last_call.op = "add_knowledge"
    /\ moves_made = {last_call.cell}
    /\ board # {}
    /\ nearby_mines(last_call.cell) = 0
    /\ safes = {last_call.cell} \cup NearbyCells(last_call.cell)

\* C13: make_safe_move returns a cell of safes that is not in moves_made,
\* returns None exactly when safes is inside moves_made, and changes nothing
\* of the engine.
C13_SafeMove ==
    [][MakeSafeMoveCall =>
          /\ returned'.value # None =>
                (returned'.value \in safes /\ returned'.value \notin moves_made)
          /\ returned'.value = None <=> safes \subseteq moves_made
          /\ UNCHANGED <<safes, mines, moves_made, knowledge>>
      ]_vars

C13_Witness ==
    /\ returned.op = "make_safe_move"
    /\ returned.value \in safes \ moves_made
    /\ moves_made # {}
    /\ mines # {}

\* C14: make_random_move returns only in-grid cells that are neither in
\* moves_made nor in mines, each of them is a possible result, it returns
\* None exactly when there is no such cell, and it changes nothing of the
\* engine.
C14_Eligible == {c \in Cells : c \notin moves_made \cup mines}

C14_RandomMove ==
    [][/\ \A c \in C14_Eligible :
             ENABLED (MakeRandomMoveCall /\ returned'.value = c)
       /\ MakeRandomMoveCall =>
             /\ returned'.value # None => returned'.value \in C14_Eligible
             /\ returned'.value = None <=> C14_Eligible = {}
             /\ UNCHANGED <<safes, mines, moves_made, knowledge>>
      ]_vars

\* a cell that is not proven safe was returned while a mine was known
C14_Witness ==
    /\ returned.op = "make_random_move"
    /\ returned.value \in Cells \ (safes \cup mines)
    /\ mines # {}

\* C15: in a state reached by true observations, calling add_knowledge again
\* for a cell already observed, with the same count, leaves knowledge (same
\* sentences, same order), safes, mines and moves_made as they are.
C15_Idempotent ==
    pc = "idle" =>
        \A cell \in moves_made :
            AddKnowledgeResult(Engine, cell, nearby_mines(cell)) = Engine

\* an observed cell still has undetermined neighbours, so that the repeated
\* call builds a sentence, and the repeated call changes nothing
C15_Witness ==
    /\ pc = "idle"
    /\ \E cell \in moves_made :
          /\ Undetermined(cell, moves_made, safes, mines) # {}
          /\ Len(knowledge) >= 2
          /\ AddKnowledgeResult(Engine, cell, nearby_mines(cell)) = Engine

\* the squares of board b that hold mark p
\* the mark on square sq of board b, and b with mark p put on sq
At(b, sq) == b[sq]

Put(b, sq, p) == [b EXCEPT ![sq] = p]

Marks(b, p) == {sq \in Squares : At(b, sq) = p}

\* the rows, the columns and the two diagonals
WinLines ==
    {{<<i, j>> : j \in 0 .. SIZE - 1} : i \in 0 .. SIZE - 1}
        \cup {{<<i, j>> : i \in 0 .. SIZE - 1} : j \in 0 .. SIZE - 1}
        \cup {{<<i, i>> : i \in 0 .. SIZE - 1},
              {<<i, SIZE - 1 - i>> : i \in 0 .. SIZE - 1}}

\* p has its mark on every square of a row, a column or a diagonal of b
Line(b, p) == \E l \in WinLines : \A sq \in l : At(b, sq) = p

\* the side to move: X moves first and the sides alternate
ToMove(b) ==
    IF Cardinality(Marks(b, PlayerX)) = Cardinality(Marks(b, PlayerO))
    THEN PlayerX
    ELSE PlayerO

\* the game on b is over: somebody has a line or the board is full
Over(b) == Line(b, PlayerX) \/ Line(b, PlayerO) \/ Marks(b, EMPTY) = {}

\* layers[k + 1]: the boards with k marks that the two sides, moving in turn,
\* can fill in from the empty board
RECURSIVE FillIn(_)
FillIn(layers) ==
    IF Len(layers) = SIZE * SIZE + 1
    THEN layers
    ELSE FillIn(Append(layers,
             UNION {{Put(b, sq, ToMove(b)) : sq \in Marks(b, EMPTY)} :
                       b \in layers[Len(layers)]}))

Layers == FillIn(<<{initial_state}>>)

\* the boards with n empty squares
Positions(n) == Layers[SIZE * SIZE - n + 1]

\* the game value (1: X wins, -1: O wins, 0: draw, both sides playing their
\* best) of every board with at most n empty squares, by backward induction
RECURSIVE ValueTable(_)
ValueTable(n) ==
    LET later == IF n = 0 THEN <<>> ELSE ValueTable(n - 1)
        value(b) ==
            IF Line(b, PlayerX) THEN 1
            ELSE IF Line(b, PlayerO) THEN 0 - 1
            ELSE IF n = 0 THEN 0
            ELSE LET next == {later[Put(b, sq, ToMove(b))] :
                                 sq \in Marks(b, EMPTY)}
                 IN  IF ToMove(b) = PlayerX THEN MaxOf(next) ELSE MinOf(next)
    IN  later @@ [b \in Positions(n) |-> value(b)]

GameValue == ValueTable(SIZE * SIZE)

\* the best value the side to move on b can reach with one move
BestValue(b) ==
    LET next == {GameValue[Put(b, sq, ToMove(b))] :
                    sq \in Marks(b, EMPTY)}
    IN  IF ToMove(b) = PlayerX THEN MaxOf(next) ELSE MinOf(next)

\* C16: on every board reached from initial_state by legal moves, minimax
\* returns None if the game is over, and otherwise an empty square whose
\* occupation by the side to move leads to a position of the best game value
\* that side can reach (the largest for X, the smallest for O); and a side
\* that has played only what minimax returned has not lost.
C16_Minimax ==
    /\ returned.op = "minimax" =>
           IF Over(ttt_board)
           THEN returned.value = {None}
           ELSE /\ returned.value # {}
                /\ \A action \in returned.value :
                       /\ action \in Marks(ttt_board, EMPTY)
                       /\ GameValue[Put(ttt_board, action,
                                            ToMove(ttt_board))]
                              = BestValue(ttt_board)
    /\ PlayerX \in ttt_faithful => ~Line(ttt_board, PlayerO)
    /\ PlayerO \in ttt_faithful => ~Line(ttt_board, PlayerX)

\* minimax returns None at the end of a game that X, playing only what
\* minimax returned, has won against an O that did not
C16_Witness ==
    /\ returned.op = "minimax"
    /\ returned.value = {None}
    /\ ttt_faithful = {PlayerX}
    /\ Line(ttt_board, PlayerX)

\* C17: on every board that calls of result lead to from initial_state, X
\* has as many marks as O or one more, and player is X exactly when they have
\* as many and O otherwise; a call of result with an empty square of the
\* board raises nothing, puts the mark of player(board) on that square of
\* the board it returns and changes no other square; with any other action
\* it raises; and it leaves the board it was given as it was.
C17_TurnOrder ==
    /\ [](LET x_marks == Cardinality(Marks(ttt_board, PlayerX))
              o_marks == Cardinality(Marks(ttt_board, PlayerO))
          IN  /\ x_marks - o_marks \in {0, 1}
              /\ player(ttt_board) = PlayerX <=> x_marks = o_marks
              /\ player(ttt_board) = PlayerO <=> x_marks # o_marks)
    /\ [][LET action == ttt_last'.action
          IN  /\ ttt_last'.arg = ttt_board
              /\ IF action \in Marks(ttt_board, EMPTY)
                 THEN /\ ~ttt_last'.raised
                      /\ At(ttt_board', action) = player(ttt_board)
                      /\ \A sq \in Squares \ {action} :
                             At(ttt_board', sq) = At(ttt_board, sq)
                 ELSE /\ ttt_last'.raised
                      /\ ttt_board' = ttt_board]_tttVars

\* result has filled the board and a further call, on a taken square, raised
C17_Witness ==
    /\ Marks(ttt_board, EMPTY) = {}
    /\ ttt_last.raised
    /\ ttt_last.action \in Squares

\* C18: whenever add_knowledge returns, no two sentences of the knowledge
\* base are equal (same cells and same count): a sentence that reduction has
\* made equal to another one has been removed.
C18_NoDuplicates ==
    pc = "idle" =>
        \A i, j \in DOMAIN knowledge :
            i # j => ~SentenceEq(knowledge[i], knowledge[j])

\* C19: a pass of the loop drops a sentence left without cells only if its
\* count is zero: a sentence without cells and with a count other than zero
\* is still in the knowledge base after the pass.
C19_KeepsContradiction ==
    [][pc = "reduce" =>
          \A i \in DOMAIN knowledge :
              LET s == ReduceSentence(knowledge[i], safes, mines)
              IN  (s.cells = {} /\ s.count # 0)
                     => InKnowledge(s, knowledge')]_vars

\* C20: whenever add_knowledge returns, the counts reported being the true
\* ones, every sentence of the knowledge base has cells and a count above 0
\* and below the number of its cells, so none has known mines or known safes;
\* and for any two sentences of which the first's cells are a strict subset of
\* the second's, the sentence of the cells and the count by which the second
\* exceeds the first is in the knowledge base too.
C20_Fixpoint ==
    pc = "idle" =>
        /\ \A i \in DOMAIN knowledge :
               /\ knowledge[i].cells # {}
               /\ 0 < knowledge[i].count
               /\ knowledge[i].count < Cardinality(knowledge[i].cells)
               /\ known_mines(knowledge[i]) = {}
               /\ known_safes(knowledge[i]) = {}
        /\ \A i, j \in DOMAIN knowledge :
               (/\ knowledge[i].cells \subseteq knowledge[j].cells
                /\ knowledge[i].cells # knowledge[j].cells)
               => \E k \in DOMAIN knowledge :
                      /\ knowledge[k].cells
                             = knowledge[j].cells \ knowledge[i].cells
                      /\ knowledge[k].count
                             = knowledge[j].count - knowledge[i].count

\* add_knowledge has returned with a sentence for the cells by which one
\* sentence exceeds another
C20_Witness ==
    /\ pc = "idle"
    /\ last_call.op = "add_knowledge"
    /\ \E i, j, k \in DOMAIN knowledge :
           /\ knowledge[i].cells \subseteq knowledge[j].cells
           /\ knowledge[i].cells # knowledge[j].cells
           /\ knowledge[k].cells = knowledge[j].cells \ knowledge[i].cells

\* the engine after the cells of a set have been probed, one after the
\* other in one fixed order, with the board's counts
RECURSIVE ProbeAll(_, _)
ProbeAll(st, cells) ==
    IF cells = {}
    THEN st
    ELSE LET c == CHOOSE x \in cells : TRUE
         IN  ProbeAll(AddKnowledgeResult(st, c, nearby_mines(c)), cells \ {c})

\* C21: on a given board, after the cells of a set of non-mine cells have
\* been probed with their true counts, safes and mines are the same whatever
\* the order of the probes: they are those of one fixed order of that set.
C21_OrderIndependent ==
    pc = "idle" =>
        LET fixed == ProbeAll(AIState({}, {}, {}, <<>>), moves_made)
        IN  /\ safes = fixed.safes
            /\ mines = fixed.mines

\* three cells have been probed, a mine and an unprobed safe cell are known
C21_Witness ==
    /\ pc = "idle"
    /\ Cardinality(moves_made) >= 3
    /\ mines # {}
    /\ safes \ moves_made # {}

====
